---- MODULE Spec2Model ----
(***************************************************************************)
(* Model of the wetransfer python SDK: a Transfer (transfer.py) that       *)
(* registers items with the add-items call and then uploads every File     *)
(* item (items.py) in chunks: per chunk a GET for a pre-signed URL and a    *)
(* PUT of the chunk, and one finish-upload POST per file.                   *)
(*                                                                         *)
(* The transfer is made and authorized by a WTApiClient (client.py).        *)
(* Each request is built by a class of api_requests.py, which fixes its    *)
(* url and headers; SpecItems looks at one File or Link object on its own. *)
(*                                                                         *)
(* Every HTTP request is one step; its response is chosen by the server    *)
(* (ok or not).  `trace' records the calls, the requests and the log       *)
(* entries of the call in progress (or of the last one).                   *)
(***************************************************************************)
EXTENDS Integers, Sequences, FiniteSets, TLC

VARIABLES
    disk,            \* path -> bytes of the file at that path
    CHUNK_SIZE,      \* File.CHUNK_SIZE (instance attribute; scaled down)
    PY2,             \* six.PY2: the interpreter the SDK runs under
    scope,           \* the scenario explored: how many items and calls,
                     \* which authorize bodies and transfer names
    key,             \* WTApiClient.key
    server,          \* WTApiClient.server
    token,           \* WTApiClient.token
    options,         \* the keyword arguments the Transfer was constructed with
    created,         \* history: a create() of the transfer has returned True
    failed,          \* history: a call on the transfer has returned False
    transfer_id,     \* Transfer.transfer_id
    shortened_url,   \* Transfer.shortened_url (None: the attribute is not set)
    transfer_items,  \* Transfer.transfer_items: sequence of item objects
    transfer_files,  \* Transfer.transfer_files: references (indices) into transfer_items
    pc,              \* position inside add_items / upload_items / upload / upload_part
    fidx,            \* upload_items: position of the loop over transfer_files
    fpos,            \* upload: read offset (in bytes) of the open file
    part_number,     \* upload: i
    piece,           \* upload: the chunk just read
    upload_url,      \* upload_part: the url of the GetUploadURL response
    response,        \* add_items: res, the add-items response
    call,            \* the call in progress or last made, and the lists it started from
    trace,           \* calls, requests and log entries of that call, in order
    returned,        \* the last value returned to the caller
    ncalls,          \* number of calls made by the user of the SDK
    made,            \* SpecItems: the item object constructed (NoItem: none yet)
    given,           \* SpecItems: what its constructor was given
    ondisk,          \* SpecItems: the bytes at the path of the File, now
    payloads,        \* SpecItems: the results of its serialize() calls, in order
    reprs            \* SpecItems: the results of its _get_hex_repr(url) calls

vars == <<disk, CHUNK_SIZE, PY2, scope, key, server, token, options, created,
          failed, transfer_id, shortened_url, transfer_items, transfer_files, pc, fidx, fpos, part_number, piece,
          upload_url, response, call, trace, returned, ncalls,
          made, given, ondisk, payloads, reprs>>

(* ---------------------------- bounds ----------------------------------- *)
MaxFileSize == 3      \* largest file, in bytes (SpecUpload)
MaxChunk == 3         \* largest CHUNK_SIZE (SpecUpload)
MaxSmallFile == 1     \* largest file, in bytes (Spec, SpecClient)
MaxSeqFile == 2       \* largest file, in bytes (SpecSequence)
MaxItems == 2         \* largest number of items held by the transfer (Spec)
MaxCalls == 2         \* largest number of calls (Spec)
MaxClientCalls == 3   \* largest number of calls (SpecClient)
MaxURLLen == 37       \* longest url, in code units (SpecItems)
MaxNameLen == 35      \* longest file name, in characters (SpecItems)
MaxOut == 2           \* most serialize() or _get_hex_repr() calls on an item (SpecItems)

(* ---------------------------- values ----------------------------------- *)
None == "None"
\* No item object yet
NoItem == [content_identifier |-> "none"]
TransferIds == {"t1"}

Min(a, b) == IF a < b THEN a ELSE b

\* A path is a sequence of characters, a URL a sequence of code units: bytes
\* under python 2, code points under python 3.
P1 == <<"/", "p", "1">>
Paths == {P1}
U1 == <<117, 49>>
URLs == {U1}

\* bool(v) of a string or None
Truthy(v) == v # None /\ v # ""

\* s[-k:]
Suffix(s, k) == SubSeq(s, IF Len(s) > k THEN Len(s) - k + 1 ELSE 1, Len(s))

\* bytes.hex(), str.encode("hex"): two lowercase digits per byte
HexDigits ==
    <<"0", "1", "2", "3", "4", "5", "6", "7", "8", "9", "a", "b", "c", "d", "e", "f">>
hex(bytes) ==
    [j \in 1..(2 * Len(bytes)) |->
        HexDigits[(IF j % 2 = 1 THEN bytes[(j + 1) \div 2] \div 16
                               ELSE bytes[(j + 1) \div 2] % 16) + 1]]

\* str.encode("utf-8"), for code points below 0x800
RECURSIVE encode_utf8(_)
encode_utf8(s) ==
    IF s = <<>>
    THEN <<>>
    ELSE (IF Head(s) < 128
          THEN <<Head(s)>>
          ELSE <<192 + (Head(s) \div 64), 128 + (Head(s) % 64)>>) \o encode_utf8(Tail(s))

\* os.getcwd()
Cwd == <<"/", "w">>

\* os.path.abspath, for a path without "." and ".." components
abspath(path) ==
    IF path # <<>> /\ path[1] = "/" THEN path ELSE Cwd \o <<"/">> \o path

\* os.path.split(path)[1]
split_tail(path) ==
    LET slashes == { i \in 1..Len(path) : path[i] = "/" }
    IN  IF slashes = {}
        THEN path
        ELSE SubSeq(path, (CHOOSE i \in slashes : \A k \in slashes : k <= i) + 1, Len(path))

\* A file is a sequence of bytes.  A byte is <<kind, offset>>: kind "a" is a
\* one-byte character, "L" "T" are the lead and trail byte of a two-byte
\* character; the offset makes every byte of a file distinct.
ByteKinds == {"a", "L", "T"}

Decodable(s) ==
    \A i \in 1..Len(s) :
        /\ s[i] = "L" => (i < Len(s) /\ s[i + 1] = "T")
        /\ s[i] = "T" => (i > 1 /\ s[i - 1] = "L")

Tagged(s) == [i \in 1..Len(s) |-> <<s[i], i>>]

Contents ==
    { Tagged(s) : s \in { t \in UNION { [1..n -> ByteKinds] : n \in 0..MaxFileSize } :
                            Decodable(t) } }

(* ------------------------- items.py: File, Link ------------------------ *)
\* File.__init__ and File._init_file; `content' is what is on disk at the path
File(filepath, content) ==
    [ content_identifier  |-> "file",
      local_identifier    |-> abspath(filepath),
      filename            |-> split_tail(abspath(filepath)),
      filesize            |-> Len(content),
      id                  |-> None,
      transfer_id         |-> None,
      multipart_parts     |-> None,
      multipart_upload_id |-> None,
      client_options      |-> None ]

\* A faulty variant: the first 34 characters of the hex string
_get_hex_repr_prefix(url) ==
    IF PY2
    THEN SubSeq(hex(url), 1, Min(34, Len(hex(url))))
    ELSE SubSeq(hex(encode_utf8(url)), 1, Min(34, Len(hex(encode_utf8(url)))))

\* A faulty variant: the last 17 characters, taking the 17 bytes for characters
_get_hex_repr_17(url) ==
    IF PY2
    THEN Suffix(hex(url), 17)
    ELSE Suffix(hex(encode_utf8(url)), 17)

\* Link._get_hex_repr
_get_hex_repr(url) ==
    IF PY2
    THEN Suffix(hex(url), 34)
    ELSE Suffix(hex(encode_utf8(url)), 34)

\* Link.__init__
Link(url, title) ==
    [ content_identifier  |-> "web_content",
      local_identifier    |-> _get_hex_repr(url),
      url                 |-> url,
      title               |-> title ]

\* A faulty variant: the first 34 characters of the path
File_serialize_prefix(self) ==
    [ filename           |-> self.filename,
      filesize           |-> self.filesize,
      content_identifier |-> self.content_identifier,
      local_identifier   |-> SubSeq(self.local_identifier, 1, Min(34, Len(self.local_identifier))) ]

\* File.serialize
File_serialize(self) ==
    [ filename           |-> self.filename,
      filesize           |-> self.filesize,
      content_identifier |-> self.content_identifier,
      local_identifier   |-> Suffix(self.local_identifier, 34) ]

\* Link.serialize
Link_serialize(self) ==
    [ content_identifier |-> self.content_identifier,
      local_identifier   |-> self.local_identifier,
      meta               |-> [title |-> self.title],
      url                |-> self.url ]

\* item.serialize(): the method of the item's class
serialize(item) ==
    IF "url" \in DOMAIN item THEN Link_serialize(item) ELSE File_serialize(item)

\* File.load_info: setattr for every keyword
load_info(item, kwargs) ==
    [ item EXCEPT !.id = kwargs.id,
                  !.transfer_id = kwargs.transfer_id,
                  !.client_options = kwargs.client_options,
                  !.multipart_parts = kwargs.multipart_parts,
                  !.multipart_upload_id = kwargs.multipart_upload_id ]

\* Width in bytes of the character that starts after byte offset p
CharWidth(content, p) == IF content[p + 1][1] = "L" THEN 2 ELSE 1

\* Byte offset reached after decoding k characters from byte offset p
RECURSIVE CharsEnd(_, _, _)
CharsEnd(content, p, k) ==
    IF k = 0 \/ p >= Len(content)
    THEN Min(p, Len(content))
    ELSE CharsEnd(content, p + CharWidth(content, p), k - 1)

\* f.read(size) on the file opened by open(path): binary under python 2
\* (size counts bytes), text under python 3 (size counts characters).
f_read(content, p, size, py2) ==
    IF py2
    THEN SubSeq(content, p + 1, Min(p + size, Len(content)))
    ELSE SubSeq(content, p + 1, CharsEnd(content, p, size))

(* -------------------------------- trace ------------------------------ *)
\* One entry of the trace.  kind is
\*   "upload_items", "upload", "upload_part"            a call of that method
\*   "upload_items_ret", "upload_ret", "upload_part_ret",
\*   "validate_ret", "create_ret"                       its return (ok: the value)
\*   "POST_AUTHORIZE", "POST_CREATE", "POST_ADD_ITEMS",
\*   "GET", "PUT", "FINISH"                             a request (ok: res.ok)
\*   "error", "info"                                    a LOGGER entry (msg, data)
\* item is the position in transfer_items of the File the entry is about.
\* A request entry also has: url, what was requested; headers and body, what
\* was sent; kwargs, the key, token and server the request object was built with.
NoURL == ""
NoKwargs == [key |-> None, token |-> None, server |-> None]

Ev(kind, item, part, data, url, ok) ==
    [kind |-> kind, item |-> item, part |-> part, data |-> data, url |-> url,
     ok |-> ok, msg |-> "", headers |-> {}, body |-> <<>>, kwargs |-> NoKwargs]

LogEntry(level, msg, args) ==
    [Ev(level, 0, 0, args, NoURL, TRUE) EXCEPT !.msg = msg]
Error(msg, args) == LogEntry("error", msg, args)
Info(msg, args)  == LogEntry("info", msg, args)

Call(kind, item, part, data) == Ev(kind, item, part, data, NoURL, TRUE)
Ret(kind, item, part, value) == Ev(kind, item, part, <<>>, NoURL, value)

\* The pre-signed url the server hands out for one part of one upload
PresignedURL(id, part, upload_id) ==
    "https://storage/" \o id \o "/" \o ToString(part) \o "/" \o upload_id

(* ----------------------------- api_requests.py ------------------------- *)
\* version.__version__
version == "x.y.z"

\* A faulty variant: headers that always carry the Authorization line
get_headers_always_bearer(kwargs) ==
    { <<"User-Agent", "WT python SDK v" \o version>>,
      <<"Content-Type", "application/json">>,
      <<"x-api-key", kwargs.key>>,
      <<"Authorization", "Bearer " \o kwargs.token>> }

\* WTHTTP.get_headers: the dict as a set of <<name, value>>
get_headers(kwargs) ==
    { <<"User-Agent", "WT python SDK v" \o version>>,
      <<"Content-Type", "application/json">>,
      <<"x-api-key", kwargs.key>> }
    \cup (IF Truthy(kwargs.token)
          THEN { <<"Authorization", "Bearer " \o kwargs.token>> }
          ELSE {})

\* A faulty variant: a url built from the server as given, without the default
build_url_as_given(kwargs, url_path) == "https://" \o kwargs.server \o url_path

\* WTHTTP.__init__ and WTHTTP.build_url: the server, or the default host
build_url(kwargs, url_path) ==
    "https://"
    \o (IF Truthy(kwargs.server) THEN kwargs.server ELSE "dev.wetransfer.com")
    \o url_path

\* WTHTTP.__init__: the request object built from the keyword arguments
WTHTTP(kwargs, url_path, post_data) ==
    [ url     |-> build_url(kwargs, url_path),
      headers |-> get_headers(kwargs),
      body    |-> post_data,
      kwargs  |-> [key |-> kwargs.key, token |-> kwargs.token, server |-> kwargs.server] ]

\* Authorize(**client_options): the client passes key and server, no token
AuthorizeRequest(kwargs) ==
    WTHTTP([key |-> kwargs.key, token |-> None, server |-> kwargs.server],
           "/v1/authorize", <<>>)

\* CreateTransfer(**client_options)
CreateTransferRequest(kwargs) ==
    WTHTTP(kwargs, "/v1/transfers", <<[name |-> kwargs.name]>>)

\* A faulty variant: a request that carries only the items of this call
AddItemsRequest_new_items(kwargs, tid, before, items) ==
    WTHTTP(kwargs, "/v1/transfers/" \o tid \o "/items",
           [i \in 1..Len(items) |-> serialize(items[i])])

\* AddItems(items=self.transfer_items, transfer_id=..., **client_options),
\* where transfer_items is what the transfer held `before' and then `items'
AddItemsRequest(kwargs, tid, before, items) ==
    WTHTTP(kwargs, "/v1/transfers/" \o tid \o "/items",
           [i \in 1..Len(before \o items) |-> serialize((before \o items)[i])])

\* GetUploadURL(id=..., part_number=..., multipart_upload_id=..., client_options=...)
GetUploadURLRequest(id, part, upload_id, kwargs) ==
    WTHTTP(kwargs,
           "/v1/files/" \o id \o "/uploads/" \o ToString(part) \o "/" \o upload_id,
           <<>>)

\* FinishUpload(id=..., client_options=...)
FinishUploadRequest(id, kwargs) ==
    WTHTTP(kwargs, "/v1/files/" \o id \o "/uploads/complete", <<>>)

\* A faulty variant: a PUT sent with the headers of the API requests
UploadPartRequest_with_headers(url, data) ==
    [url |-> url,
     headers |-> get_headers([key |-> key, token |-> token, server |-> server]),
     body |-> data, kwargs |-> NoKwargs]

\* UploadPart(url, data): requests.put(url, data=data)
UploadPartRequest(url, data) ==
    [url |-> url, headers |-> {}, body |-> data, kwargs |-> NoKwargs]

\* The trace entry of a request: what was sent, and the response (ok, data)
Send(kind, item, part, req, data, ok) ==
    [Ev(kind, item, part, data, req.url, ok) EXCEPT
        !.headers = req.headers, !.body = req.body, !.kwargs = req.kwargs]

(* ------------------------- the add-items response ---------------------- *)
\* One entry of the g-th add-items response array.  The server answers in
\* request order: entry i carries the content_identifier of the i-th item sent
\* (an entry beyond the request is a file entry) and ids that no other entry
\* of any response has.
ResponseEntry(g, i, sent) ==
    [ id                  |-> "id" \o ToString(g) \o "_" \o ToString(i),
      content_identifier  |-> IF i <= Len(sent) THEN sent[i].content_identifier ELSE "file",
      multipart_parts     |-> "parts" \o ToString(g) \o "_" \o ToString(i),
      multipart_upload_id |-> "mup" \o ToString(g) \o "_" \o ToString(i) ]

\* A response: res.ok and res.json(), an array of k entries
Response(ok, k, g, sent) ==
    [ok |-> ok, json |-> [i \in 1..k |-> ResponseEntry(g, i, sent)]]

NoResponse == [ok |-> FALSE, json |-> <<>>]

(* ------------------------------ transfer.py ---------------------------- *)
\* A faulty variant: options that read the token the client holds now
client_options_live ==
    [name |-> options.name, key |-> options.key, token |-> token,
     server |-> options.server]

\* Transfer.__init__: self.client_options
client_options ==
    [name |-> options.name, key |-> options.key, token |-> options.token,
     server |-> options.server]

\* A faulty variant: a validation that only looks at res.ok
validate_add_items_response_ok_only(res, held) ==
    IF ~res.ok
    THEN [value |-> FALSE, events |-> <<Error("Failed to add items", <<>>)>>]
    ELSE [value |-> TRUE, events |-> <<>>]

\* Transfer.validate_add_items_response: the value returned and what is logged
validate_add_items_response(res, held) ==
    IF ~res.ok
    THEN [value |-> FALSE, events |-> <<Error("Failed to add items", <<>>)>>]
    ELSE IF Len(res.json) # Len(held)
    THEN [value |-> FALSE,
          events |-> <<Error("didn't return same number of items",
                             <<Len(res.json), Len(held)>>)>>]
    ELSE [value |-> TRUE, events |-> <<>>]

Indices(n) == [i \in 1..n |-> i]

\* Transfer.add_items: the test `item["content_identifier"] == "web_content"'
IsFileEntry(entry) == entry.content_identifier # "web_content"

\* Transfer.add_items, the loop over enumerate(returned_items): the keyword
\* arguments handed to load_info for one entry
LoadKwargs(entry, tid) ==
    [ id                  |-> entry.id,
      transfer_id         |-> tid,
      client_options      |-> client_options,
      multipart_parts     |-> entry.multipart_parts,
      multipart_upload_id |-> entry.multipart_upload_id ]

\* ... the item objects after the loop
LoadedItems(items, json, tid) ==
    [ i \in 1..Len(items) |->
        IF i <= Len(json) /\ IsFileEntry(json[i])
        THEN load_info(items[i], LoadKwargs(json[i], tid))
        ELSE items[i] ]

\* ... the references appended to transfer_files by the loop
AppendedFiles(json) ==
    SelectSeq(Indices(Len(json)), LAMBDA i : IsFileEntry(json[i]))

\* The file object upload_items is at, and the bytes at its path
CurItem == transfer_files[fidx]
CurFile == transfer_items[CurItem]
CurContent == disk[CurFile.local_identifier]

(* ------------------ where a call goes on after a result ---------------- *)
\* What the code does next: the position it moves to, the loop counters, the
\* value handed to the caller, and the trace entries it adds on the way.
Cont(p, f, i, r, events) ==
    [pc |-> p, fidx |-> f, part_number |-> i, returned |-> r, events |-> events]

Then(events, k) == [k EXCEPT !.events = events \o @]

\* What the last call handed to its caller: a boolean (value), an object
\* (object: "Transfer", or None with value FALSE), or an exception (raised)
NotReturned == [op |-> "none", value |-> FALSE, object |-> None, raised |-> None]
Returned(op, value) == [NotReturned EXCEPT !.op = op, !.value = value]
ReturnedObject(op, obj) ==
    [NotReturned EXCEPT !.op = op, !.value = (obj # None), !.object = obj]
Raised(op, exception) == [NotReturned EXCEPT !.op = op, !.raised = exception]

\* A faulty variant: add_items that reports the registration, not the uploads
add_items_return_registered(r) == Returned("add_items", TRUE)

\* Transfer.add_items: return self.upload_items()
add_items_return(r) == Returned("add_items", r)

\* A faulty variant: add_items that goes on to upload_items whatever the validation says
add_items_after_validate_goes_on(value) ==
    Cont("upload_items", 1, part_number, NotReturned,
         <<Info("Successfully added items", <<>>), Call("upload_items", 0, 0, <<>>)>>)

\* Transfer.add_items after self.validate_add_items_response(res)
add_items_after_validate(value) ==
    IF ~value
    THEN Cont("idle", fidx, part_number, Returned("add_items", FALSE), <<>>)
    ELSE Cont("upload_items", 1, part_number, NotReturned,
              <<Info("Successfully added items", <<>>), Call("upload_items", 0, 0, <<>>)>>)

\* A faulty variant: upload_items that logs the failure and goes on with the next file
upload_items_after_continues(r) ==
    IF ~r
    THEN Cont("upload_items", fidx + 1, part_number, returned,
              <<Error("Failed to upload item", <<CurItem>>)>>)
    ELSE Cont("upload_items", fidx + 1, part_number, returned,
              <<Info("Successfully uploaded item", <<CurItem>>)>>)

\* Transfer.upload_items, the loop body after r = item.upload(): a False
\* ends the loop and upload_items, and add_items returns that value
upload_items_after(r) ==
    IF ~r
    THEN Cont("idle", fidx, part_number, add_items_return(FALSE),
              <<Error("Failed to upload item", <<CurItem>>),
                Ret("upload_items_ret", 0, 0, FALSE)>>)
    ELSE Cont("upload_items", fidx + 1, part_number, returned,
              <<Info("Successfully uploaded item", <<CurItem>>)>>)

\* A faulty variant: upload_items on a transfer that remembers an earlier failure
upload_items_next_sticky ==
    IF failed \/ fidx > Len(transfer_files)
    THEN Cont("idle", fidx, part_number, add_items_return(~failed),
              <<Ret("upload_items_ret", 0, 0, ~failed)>>)
    ELSE Cont("read", fidx, 1, returned, <<Call("upload", CurItem, 0, <<>>)>>)

\* A faulty variant: upload_items that uploads the first file only
upload_items_next_first_only ==
    IF fidx > Len(transfer_files) \/ fidx > 1
    THEN Cont("idle", fidx, part_number, add_items_return(TRUE),
              <<Ret("upload_items_ret", 0, 0, TRUE)>>)
    ELSE Cont("read", fidx, 1, returned, <<Call("upload", CurItem, 0, <<>>)>>)

\* Transfer.upload_items, the head of the loop: the next file, or return True
upload_items_next ==
    IF fidx > Len(transfer_files)
    THEN Cont("idle", fidx, part_number, add_items_return(TRUE),
              <<Ret("upload_items_ret", 0, 0, TRUE)>>)
    ELSE Cont("read", fidx, 1, returned, <<Call("upload", CurItem, 0, <<>>)>>)

\* A faulty variant: upload() that does not look at the result of upload_part
upload_after_part_ignored(res) ==
    Cont("read", fidx, part_number + 1, returned, <<>>)

\* File.upload after res = self.upload_part(piece, i)
upload_after_part(res) ==
    IF ~res
    THEN Then(<<Ret("upload_ret", CurItem, 0, FALSE)>>, upload_items_after(FALSE))
    ELSE Cont("read", fidx, part_number + 1, returned, <<>>)

\* A faulty variant: a read shorter than CHUNK_SIZE taken for the end of the file
upload_after_read_short(chunk) ==
    IF Len(chunk) < CHUNK_SIZE
    THEN Cont("finish", fidx, part_number, returned, <<>>)
    ELSE Cont("get_url", fidx, part_number, returned,
              <<Call("upload_part", CurItem, part_number, chunk)>>)

\* A faulty variant: a loop that uploads the first read whatever it is
upload_after_read_first(chunk) ==
    IF chunk = <<>> /\ part_number > 1
    THEN Cont("finish", fidx, part_number, returned, <<>>)
    ELSE Cont("get_url", fidx, part_number, returned,
              <<Call("upload_part", CurItem, part_number, chunk)>>)

\* A faulty variant: a loop that reads on at the end of the file
upload_after_read_again(chunk) ==
    IF chunk = <<>>
    THEN Cont("read", fidx, part_number, returned, <<>>)
    ELSE Cont("get_url", fidx, part_number, returned,
              <<Call("upload_part", CurItem, part_number, chunk)>>)

\* File.upload after the read of the iterator: the sentinel '' ends the loop
upload_after_read(chunk) ==
    IF chunk = <<>>
    THEN Cont("finish", fidx, part_number, returned, <<>>)
    ELSE Cont("get_url", fidx, part_number, returned,
              <<Call("upload_part", CurItem, part_number, chunk)>>)

\* A faulty variant: upload() that does not look at the finish response
upload_after_finish_unchecked(ok) ==
    Then(<<Info("Successfully closed upload", <<CurFile.id>>),
           Ret("upload_ret", CurItem, 0, TRUE)>>,
         upload_items_after(TRUE))

\* File.upload after res = FinishUpload(**kwargs).create()
upload_after_finish(ok) ==
    IF ~ok
    THEN Then(<<Error("Failed closing upload", <<CurFile.id>>),
                Ret("upload_ret", CurItem, 0, FALSE)>>,
              upload_items_after(FALSE))
    ELSE Then(<<Info("Successfully closed upload", <<CurFile.id>>),
                Ret("upload_ret", CurItem, 0, TRUE)>>,
              upload_items_after(TRUE))

\* The values File.upload_part formats into the log entries about the url
PartContext == <<CurFile.id, CurFile.multipart_upload_id, part_number>>

\* A faulty variant: upload_part that logs the failed fetch and PUTs all the same
upload_part_after_get_goes_on(ok) ==
    IF ~ok
    THEN Cont("put", fidx, part_number, returned,
              <<Error("Failed fetching url", PartContext)>>)
    ELSE Cont("put", fidx, part_number, returned,
              <<Info("Successfully fetched url", PartContext)>>)

\* A faulty variant: upload_part that fetches the url of the next part before
\* it has PUT this one
upload_part_after_get_next_part(ok) ==
    IF ~ok
    THEN Then(<<Error("Failed fetching url", PartContext),
                Ret("upload_part_ret", CurItem, part_number, FALSE)>>,
              upload_after_part(FALSE))
    ELSE Cont("get_url", fidx, part_number + 1, returned,
              <<Info("Successfully fetched url", PartContext)>>)

\* File.upload_part after res = GetUploadURL(**kwargs).create()
upload_part_after_get(ok) ==
    IF ~ok
    THEN Then(<<Error("Failed fetching url", PartContext),
                Ret("upload_part_ret", CurItem, part_number, FALSE)>>,
              upload_after_part(FALSE))
    ELSE Cont("put", fidx, part_number, returned,
              <<Info("Successfully fetched url", PartContext)>>)

\* A faulty variant: upload_part that does not look at the PUT response
upload_part_after_put_unchecked(ok) ==
    Then(<<Info("Successfully PUT-ed part-number", <<part_number, CurFile.id>>),
           Ret("upload_part_ret", CurItem, part_number, TRUE)>>,
         upload_after_part(TRUE))

\* File.upload_part after res = UploadPart(upload_url, part).create()
upload_part_after_put(ok) ==
    IF ~ok
    THEN Then(<<Error("Failed PUT-ing part-number", <<part_number, CurFile.id>>),
                Ret("upload_part_ret", CurItem, part_number, FALSE)>>,
              upload_after_part(FALSE))
    ELSE Then(<<Info("Successfully PUT-ed part-number", <<part_number, CurFile.id>>),
                Ret("upload_part_ret", CurItem, part_number, TRUE)>>,
              upload_after_part(TRUE))

\* Take the step: `first' is the request made, k where the code goes on
Go(first, k) ==
    /\ trace' = trace \o first \o k.events
    /\ pc' = k.pc
    /\ fidx' = k.fidx
    /\ part_number' = k.part_number
    /\ returned' = k.returned
    /\ failed' = (failed \/ (k.returned.op # "none" /\ ~k.returned.value))

(* ---------------------- transfer.py: Transfer.create ------------------- *)
\* The JSON body of a create-transfer response
CreateBody(tid) == [id |-> tid, shortened_url |-> "https://we.tl/" \o tid]

\* A faulty variant: create() that forgets the transfer it had when it fails
create_after_resets(ok, body, self) ==
    IF ~ok
    THEN [value |-> FALSE, transfer_id |-> None, shortened_url |-> None,
          events |-> <<Error("Failed creating new transfer", <<>>)>>]
    ELSE [value |-> TRUE, transfer_id |-> body.id, shortened_url |-> body.shortened_url,
          events |-> <<Info("Successfully created new transfer", <<>>)>>]

\* A faulty variant: create() that stores the body before it looks at res.ok
create_after_stores_unchecked(ok, body, self) ==
    IF ~ok
    THEN [value |-> FALSE, transfer_id |-> body.id, shortened_url |-> body.shortened_url,
          events |-> <<Error("Failed creating new transfer", <<>>)>>]
    ELSE [value |-> TRUE, transfer_id |-> body.id, shortened_url |-> body.shortened_url,
          events |-> <<Info("Successfully created new transfer", <<>>)>>]

\* Transfer.create after res = CreateTransfer(**self.client_options).create(),
\* on a transfer whose transfer_id and shortened_url are those of `self'
create_after(ok, body, self) ==
    IF ~ok
    THEN [value |-> FALSE, transfer_id |-> self.transfer_id,
          shortened_url |-> self.shortened_url,
          events |-> <<Error("Failed creating new transfer", <<>>)>>]
    ELSE [value |-> TRUE, transfer_id |-> body.id, shortened_url |-> body.shortened_url,
          events |-> <<Info("Successfully created new transfer", <<>>)>>]

(* ------------------------ client.py: WTApiClient ----------------------- *)
\* A JSON value of the authorize body: a string or a number
JString(s) == [type |-> "string", s |-> s, n |-> 0]
JNumber(n) == [type |-> "number", s |-> "", n |-> n]

\* str(value)
str(v) == IF v.type = "string" THEN v.s ELSE ToString(v.n)

\* The JSON body of an authorize response: the keys it has, and the value of
\* "token" when it has that key
NoTokenBody == [fields |-> {}, token |-> JString("")]
TokenBody(v) == [fields |-> {"token"}, token |-> v]
Bodies ==
    {NoTokenBody, TokenBody(JString("abc")), TokenBody(JString("")), TokenBody(JNumber(7))}

\* The names a caller passes to create_transfer
Names == {"n1"}

\* The servers a client is constructed with: none, or a host
Servers == {None, "s1.example"}

\* A faulty variant: authorize() that takes every HTTP success for a token
authorize_after_any_success(ok, body) ==
    IF ~ok
    THEN [value |-> FALSE, token |-> token,
          events |-> <<Error("Failed authorizing", <<>>)>>]
    ELSE [value |-> TRUE,
          token |-> IF "token" \in body.fields THEN str(body.token) ELSE token,
          events |-> <<Info("Successfully authorized", <<>>)>>]

\* A faulty variant: authorize() that drops the token when the request fails
authorize_after_forgets(ok, body) ==
    IF ~ok
    THEN [value |-> FALSE, token |-> None,
          events |-> <<Error("Failed authorizing", <<>>)>>]
    ELSE IF "token" \notin body.fields
    THEN [value |-> FALSE, token |-> token,
          events |-> <<Info("Successfully authorized", <<>>),
                       Error("Expected 'token' in Authorize json response", <<>>)>>]
    ELSE [value |-> TRUE, token |-> str(body.token),
          events |-> <<Info("Successfully authorized", <<>>)>>]

\* A faulty variant: authorize() that stores what it read before it checks it
authorize_after_stores_first(ok, body) ==
    IF ~ok
    THEN [value |-> FALSE, token |-> token,
          events |-> <<Error("Failed authorizing", <<>>)>>]
    ELSE IF "token" \notin body.fields
    THEN [value |-> FALSE, token |-> str(body.token),
          events |-> <<Info("Successfully authorized", <<>>),
                       Error("Expected 'token' in Authorize json response", <<>>)>>]
    ELSE [value |-> TRUE, token |-> str(body.token),
          events |-> <<Info("Successfully authorized", <<>>)>>]

\* WTApiClient.authorize after res = Authorize(**client_options).create():
\* the value returned, the token the client holds then, and what is logged
authorize_after(ok, body) ==
    IF ~ok
    THEN [value |-> FALSE, token |-> token,
          events |-> <<Error("Failed authorizing", <<>>)>>]
    ELSE IF "token" \notin body.fields
    THEN [value |-> FALSE, token |-> token,
          events |-> <<Info("Successfully authorized", <<>>),
                       Error("Expected 'token' in Authorize json response", <<>>)>>]
    ELSE [value |-> TRUE, token |-> str(body.token),
          events |-> <<Info("Successfully authorized", <<>>)>>]

\* WTApiClient.create_transfer(transfer_name="WT Transfer"): the name used
\* when the caller passes `args' (no argument, or the name)
transfer_name(args) == IF args = <<>> THEN "WT Transfer" ELSE args[1]

\* A faulty variant: create_transfer that returns the transfer whatever create() says
create_transfer_return_always(r) == ReturnedObject("create_transfer", "Transfer")

\* WTApiClient.create_transfer after transfer.create()
create_transfer_return(r) ==
    IF ~r
    THEN ReturnedObject("create_transfer", None)
    ELSE ReturnedObject("create_transfer", "Transfer")

(* -------------------------------- Init --------------------------------- *)
\* The call in progress or last made: its arguments, and the lists of the
\* transfer and the attributes of the client when it started
\* The items that the add_items calls made so far on the transfer at hand
\* were given, in order: those of the calls before the last one, those of the
\* last call if it was add_items; none when the last call made the transfer
PassedSoFar ==
    IF call.op = "create_transfer" /\ returned.object = "Transfer"
    THEN <<>>
    ELSE IF call.op = "add_items"
    THEN call.passed_before \o call.items
    ELSE call.passed_before

\* The items of the transfer at hand (positions in transfer_items) whose
\* finish-upload request has succeeded in a call made so far
FinishedSoFar ==
    IF call.op = "create_transfer" /\ returned.object = "Transfer"
    THEN {}
    ELSE call.finished_before
         \cup { trace[j].item :
                  j \in { k \in 1..Len(trace) : trace[k].kind = "FINISH" /\ trace[k].ok } }

\* The "token" value of the response of the latest authorize() that has
\* returned True (NoGrant: there was none)
NoGrant == [type |-> "none", s |-> "", n |-> 0]
GrantedSoFar ==
    IF call.op = "authorize" /\ returned.value
    THEN trace[1].data[1].token
    ELSE call.granted_before

\* The token the client held when it constructed the transfer at hand
MadeWith ==
    IF call.op = "create_transfer" /\ returned.object = "Transfer"
    THEN call.client_before.token
    ELSE call.made_with

Called(op, args, single, items) ==
    [op |-> op, args |-> args, single |-> single, items |-> items,
     items_before |-> transfer_items, files_before |-> transfer_files,
     passed_before |-> PassedSoFar,
     finished_before |-> FinishedSoFar,
     made_with |-> MadeWith,
     granted_before |-> GrantedSoFar,
     transfer_before |-> [transfer_id |-> transfer_id, shortened_url |-> shortened_url],
     client_before |-> [key |-> key, server |-> server, token |-> token]]

NoCall ==
    [op |-> "none", args |-> <<>>, single |-> FALSE, items |-> <<>>,
     items_before |-> <<>>, files_before |-> <<>>, passed_before |-> <<>>,
     finished_before |-> {}, made_with |-> None, granted_before |-> NoGrant,
     transfer_before |-> [transfer_id |-> None, shortened_url |-> None],
     client_before |-> [key |-> "key", server |-> None, token |-> None]]

\* The state after WTApiClient.__init__ and Transfer.__init__, for files drawn from `contents', chunk
\* sizes from `chunks', interpreters from `builds', and a scenario of at most
\* `items' items and `calls' calls, authorize bodies from `bodies'
\* and transfer names from `names', for a client constructed with a server of `servers'
InitWith(contents, chunks, builds, items, calls, bodies, names, servers) ==
    /\ disk \in [Paths -> contents]
    /\ CHUNK_SIZE \in chunks
    /\ PY2 \in builds
    /\ scope = [items |-> items, calls |-> calls, bodies |-> bodies, names |-> names]
    /\ key = "key"
    /\ server \in servers
    /\ token = None
    /\ options = [name |-> "WT Transfer", key |-> "key", token |-> None, server |-> server]
    /\ created = FALSE
    /\ failed = FALSE
    /\ transfer_id = None
    /\ shortened_url = None
    /\ transfer_items = <<>>
    /\ transfer_files = <<>>
    /\ pc = "idle"
    /\ fidx = 0
    /\ fpos = 0
    /\ part_number = 0
    /\ piece = <<>>
    /\ upload_url = NoURL
    /\ response = NoResponse
    /\ call = NoCall
    /\ trace = <<>>
    /\ returned = NotReturned
    /\ ncalls = 0
    /\ made = NoItem
    /\ given = None
    /\ ondisk = <<>>
    /\ payloads = <<>>
    /\ reprs = <<>>

\* Spec: several items and calls; small files, read under python 3
Init ==
    InitWith({c \in Contents : Len(c) <= MaxSmallFile}, {1}, {FALSE},
             MaxItems, MaxCalls, {NoTokenBody}, {}, {None})

\* SpecUpload: one item and one call; every file, chunk size and interpreter
InitUpload == InitWith(Contents, 1..MaxChunk, BOOLEAN, 1, 1, {NoTokenBody}, {}, {None})

\* SpecClient: the calls of the client and of one transfer, with every
\* authorize body, transfer name and server; one item, a small file
InitClient ==
    InitWith({c \in Contents : Len(c) <= MaxSmallFile}, {1}, {FALSE}, 1,
             MaxClientCalls, Bodies, Names, Servers)

\* SpecSequence: one add_items call with several files of several parts
InitSequence ==
    InitWith({c \in Contents : Len(c) <= MaxSeqFile}, {1}, {FALSE}, MaxItems, 1,
             {NoTokenBody}, {}, {None})

\* SpecTermination: one add_items call with several files, every chunk size
\* and interpreter
InitTermination ==
    InitWith({c \in Contents : Len(c) <= MaxSeqFile}, 1..MaxChunk, BOOLEAN, MaxItems, 1,
             {NoTokenBody}, {}, {None})

\* SpecItems: one item object on its own, under either interpreter
InitItems == InitWith({<<>>}, {1}, BOOLEAN, 1, 1, {NoTokenBody}, {}, {None})

itemVars == <<made, given, ondisk, payloads, reprs>>
envVars == <<disk, CHUNK_SIZE, PY2, scope, key, server, itemVars>>
transferVars ==
    <<disk, CHUNK_SIZE, PY2, scope, key, server, token, options, created, failed,
      transfer_id, shortened_url, transfer_items, transfer_files, pc, fidx, fpos,
      part_number, piece, upload_url, response, call, trace, returned, ncalls>>

(* ------------------------------- actions ------------------------------- *)
\* Transfer.create()
Create(ok, tid) ==
    /\ pc = "idle"
    /\ ncalls < scope.calls
    /\ ncalls' = ncalls + 1
    /\ LET body == CreateBody(tid)
           self == [transfer_id |-> transfer_id, shortened_url |-> shortened_url]
           res == create_after(ok, body, self)
       IN  /\ transfer_id' = res.transfer_id
           /\ shortened_url' = res.shortened_url
           /\ trace' = <<Send("POST_CREATE", 0, 0, CreateTransferRequest(client_options),
                               <<body>>, ok)>>
                        \o res.events
                        \o <<Ret("create_ret", 0, 0, res.value)>>
           /\ returned' = Returned("create", res.value)
           /\ created' = (created \/ res.value)
           /\ failed' = (failed \/ ~res.value)
    /\ call' = Called("create", <<>>, FALSE, <<>>)
    /\ response' = NoResponse
    /\ UNCHANGED <<envVars, token, options, transfer_items, transfer_files, pc,
                   fidx, fpos, part_number, piece, upload_url>>

\* WTApiClient.authorize()
Authorize(ok, body) ==
    /\ pc = "idle"
    /\ ncalls < scope.calls
    /\ ncalls' = ncalls + 1
    /\ LET res == authorize_after(ok, body)
       IN  /\ token' = res.token
           /\ trace' = <<Send("POST_AUTHORIZE", 0, 0,
                               AuthorizeRequest([key |-> key, server |-> server]),
                               <<body>>, ok)>>
                        \o res.events
           /\ returned' = Returned("authorize", res.value)
    /\ call' = Called("authorize", <<>>, FALSE, <<>>)
    /\ response' = NoResponse
    /\ UNCHANGED <<envVars, options, created, failed, transfer_id, shortened_url,
                   transfer_items, transfer_files, pc, fidx, fpos, part_number,
                   piece, upload_url>>

\* WTApiClient.create_transfer(*args): a new Transfer is constructed from the
\* client's attributes and created.  When it is returned it is the transfer
\* the caller goes on with; when None is returned the caller is left with the
\* transfer it had.
CreateTransfer(args, ok, tid) ==
    /\ pc = "idle"
    /\ ncalls < scope.calls
    /\ ncalls' = ncalls + 1
    /\ LET new == [name |-> transfer_name(args), key |-> key, token |-> token,
                   server |-> server]
           body == CreateBody(tid)
           res == create_after(ok, body, [transfer_id |-> None, shortened_url |-> None])
           ret == create_transfer_return(res.value)
       IN  /\ trace' = <<Send("POST_CREATE", 0, 0, CreateTransferRequest(new),
                               <<body>>, ok)>>
                        \o res.events
                        \o <<Ret("create_ret", 0, 0, res.value)>>
           /\ returned' = ret
           /\ IF ret.object = None
              THEN UNCHANGED <<options, created, failed, transfer_id, shortened_url,
                               transfer_items, transfer_files>>
              ELSE /\ options' = new
                   /\ created' = res.value
                   /\ failed' = FALSE
                   /\ transfer_id' = res.transfer_id
                   /\ shortened_url' = res.shortened_url
                   /\ transfer_items' = <<>>
                   /\ transfer_files' = <<>>
    /\ call' = Called("create_transfer", args, FALSE, <<>>)
    /\ response' = NoResponse
    /\ UNCHANGED <<envVars, token, pc, fidx, fpos, part_number, piece, upload_url>>

\* The paths a caller passes to add_files: one path, or a list of paths
PathLists == UNION { [1..n -> Paths] : n \in 0..(scope.items - Len(transfer_items)) }
URLLists == UNION { [1..n -> URLs] : n \in 0..(scope.items - Len(transfer_items)) }

\* Transfer.add_files(file_paths): a File per path is appended to
\* transfer_items, and the call self.add_items(), which lacks the argument
\* `items', raises TypeError before add_items runs.
AddFiles(single, paths) ==
    /\ pc = "idle"
    /\ ncalls < scope.calls
    /\ ncalls' = ncalls + 1
    /\ single => Len(paths) = 1
    /\ transfer_items' = transfer_items \o [i \in 1..Len(paths) |-> File(paths[i], disk[paths[i]])]
    /\ returned' = Raised("add_files", "TypeError")
    /\ call' = Called("add_files", paths, single, <<>>)
    /\ trace' = <<>>
    /\ response' = NoResponse
    /\ UNCHANGED <<envVars, token, options, created, failed, transfer_id,
                   shortened_url, transfer_files, pc, fidx, fpos, part_number,
                   piece, upload_url>>

\* Transfer.add_links(urls): Link(url), which lacks the argument `title',
\* raises TypeError at the first url; with no url at all self.add_items()
\* raises it.  Nothing is appended.
AddLinks(single, urls) ==
    /\ pc = "idle"
    /\ ncalls < scope.calls
    /\ ncalls' = ncalls + 1
    /\ single => Len(urls) = 1
    /\ returned' = Raised("add_links", "TypeError")
    /\ call' = Called("add_links", urls, single, <<>>)
    /\ trace' = <<>>
    /\ response' = NoResponse
    /\ UNCHANGED <<envVars, token, options, created, failed, transfer_id,
                   shortened_url, transfer_items, transfer_files, pc, fidx, fpos,
                   part_number, piece, upload_url>>

\* The item objects a caller can pass to add_items
ItemPool == { File(p, disk[p]) : p \in Paths } \cup { Link(u, "title") : u \in URLs }
ItemLists == UNION { [1..n -> ItemPool] : n \in 0..scope.items }

\* A faulty variant: the list is replaced by the items of the call
extend_replaces(list, items) == items

\* list.extend(items)
extend(list, items) == list \o items

\* Transfer.add_items(items), up to the call of upload_items.  The server
\* answers the request with a success or a failure (ok) that carries an array
\* of d entries more than it was sent.
AddItems(items, ok, d) ==
    /\ pc = "idle"
    /\ ncalls < scope.calls
    /\ Len(transfer_items) + Len(items) <= scope.items
    /\ Len(transfer_items) + Len(items) + d >= 0
    /\ ncalls' = ncalls + 1
    /\ response' = Response(ok, Len(transfer_items) + Len(items) + d, ncalls + 1,
                            extend(transfer_items, items))
    /\ call' = Called("add_items", <<>>, FALSE, items)
    /\ LET held == extend(transfer_items, items)
           res == Response(ok, Len(held) + d, ncalls + 1, held)
           valid == validate_add_items_response(res, held)
       IN  /\ transfer_items' = IF valid.value
                                THEN LoadedItems(held, res.json, transfer_id)
                                ELSE held
           /\ transfer_files' = IF valid.value
                                THEN transfer_files \o AppendedFiles(res.json)
                                ELSE transfer_files
           /\ trace' = <<Send("POST_ADD_ITEMS", 0, 0,
                               AddItemsRequest(client_options, transfer_id,
                                               transfer_items, items),
                               held, res.ok)>>
                        \o valid.events
                        \o <<Ret("validate_ret", 0, 0, valid.value)>>
                        \o add_items_after_validate(valid.value).events
           /\ pc' = add_items_after_validate(valid.value).pc
           /\ fidx' = add_items_after_validate(valid.value).fidx
           /\ returned' = add_items_after_validate(valid.value).returned
           /\ failed' = (failed \/ ~valid.value)
    /\ UNCHANGED <<envVars, token, options, created, transfer_id, shortened_url,
                   fpos, part_number, piece, upload_url>>

\* Transfer.upload_items: the head of the loop over transfer_files.  Either
\* the loop is over or upload() of the next file starts: open(), i = 1.
UploadItems ==
    /\ pc = "upload_items"
    /\ Go(<<>>, upload_items_next)
    /\ fpos' = 0
    /\ UNCHANGED <<envVars, token, options, created, transfer_id, shortened_url, transfer_items,
                   transfer_files, piece, upload_url, response, call, ncalls>>

\* File.upload: one evaluation of f.read(self.CHUNK_SIZE) by the iterator
\* and, unless it is the sentinel '', the call upload_part(piece, i)
ReadPiece ==
    /\ pc = "read"
    /\ LET chunk == f_read(CurContent, fpos, CHUNK_SIZE, PY2)
       IN  /\ piece' = chunk
           /\ fpos' = fpos + Len(chunk)
           /\ Go(<<>>, upload_after_read(chunk))
    /\ UNCHANGED <<envVars, token, options, created, transfer_id, shortened_url, transfer_items,
                   transfer_files, upload_url, response, call, ncalls>>

\* A faulty variant: the url of the first response is kept for every part
upload_url_after_get_first(ok, url) ==
    IF ok /\ upload_url = NoURL THEN url ELSE upload_url

\* File.upload_part: upload_url = body["upload_url"] of a successful response
upload_url_after_get(ok, url) ==
    IF ok THEN url ELSE upload_url

\* File.upload_part: GetUploadURL(...).create() and what follows its result
GetUploadURL(ok) ==
    /\ pc = "get_url"
    /\ LET url == PresignedURL(CurFile.id, part_number, CurFile.multipart_upload_id)
           req == GetUploadURLRequest(CurFile.id, part_number,
                                      CurFile.multipart_upload_id,
                                      CurFile.client_options)
       IN  /\ Go(<<Send("GET", CurItem, part_number, req, <<url>>, ok)>>,
                 upload_part_after_get(ok))
           /\ upload_url' = upload_url_after_get(ok, url)
    /\ UNCHANGED <<envVars, token, options, created, transfer_id, shortened_url, transfer_items,
                   transfer_files, fpos, piece, response, call, ncalls>>

\* File.upload_part: UploadPart(upload_url, part).create() and what follows
UploadPart(ok) ==
    /\ pc = "put"
    /\ Go(<<Send("PUT", CurItem, part_number, UploadPartRequest(upload_url, piece),
                 piece, ok)>>,
          upload_part_after_put(ok))
    /\ UNCHANGED <<envVars, token, options, created, transfer_id, shortened_url, transfer_items,
                   transfer_files, fpos, piece, upload_url, response, call, ncalls>>

\* File.upload: FinishUpload(...).create() and what follows its result
FinishUpload(ok) ==
    /\ pc = "finish"
    /\ Go(<<Send("FINISH", CurItem, 0,
                 FinishUploadRequest(CurFile.id, CurFile.client_options), <<>>, ok)>>,
          upload_after_finish(ok))
    /\ UNCHANGED <<envVars, token, options, created, transfer_id, shortened_url, transfer_items,
                   transfer_files, fpos, piece, upload_url, response, call, ncalls>>

(* ----------------------------- specification --------------------------- *)
Next ==
    \/ \E ok \in BOOLEAN, body \in scope.bodies : Authorize(ok, body)
    \/ \E args \in {<<>>} \cup {<<n>> : n \in scope.names}, ok \in BOOLEAN, tid \in TransferIds :
          CreateTransfer(args, ok, tid)
    \/ \E ok \in BOOLEAN, tid \in TransferIds : Create(ok, tid)
    \/ \E single \in BOOLEAN, paths \in PathLists : AddFiles(single, paths)
    \/ \E single \in BOOLEAN, urls \in URLLists : AddLinks(single, urls)
    \/ \E items \in ItemLists, ok \in BOOLEAN, d \in {-1, 0, 1} : AddItems(items, ok, d)
    \/ UploadItems
    \/ ReadPiece
    \/ \E ok \in BOOLEAN : GetUploadURL(ok)
    \/ \E ok \in BOOLEAN : UploadPart(ok)
    \/ \E ok \in BOOLEAN : FinishUpload(ok)

Spec == Init /\ [][Next]_vars

SpecUpload == InitUpload /\ [][Next]_vars

SpecClient == InitClient /\ [][Next]_vars
SpecSequence == InitSequence /\ [][Next]_vars

\* The interpreter runs a call on, and every request made gets a response
\* (requests is called without a timeout and blocks until then)
Progress ==
    /\ WF_vars(UploadItems)
    /\ WF_vars(ReadPiece)
    /\ WF_vars(\E ok \in BOOLEAN : GetUploadURL(ok))
    /\ WF_vars(\E ok \in BOOLEAN : UploadPart(ok))
    /\ WF_vars(\E ok \in BOOLEAN : FinishUpload(ok))

SpecTermination == InitTermination /\ [][Next]_vars /\ Progress

(* -------------------------- one item on its own ------------------------ *)
\* The urls a Link is made of: n code units, the same one or five in turn,
\* from "x" (0x78), from a tab (0x09) or from e-acute (0xe9)
URLBases == {120, 9, 233}
URLOf(n, base, step) == [i \in 1..n |-> base + step * (i % 5)]

\* The paths a File is made of: a name of n characters, every one different
\* from the 35 before it, given with an absolute directory, with a relative
\* one, or bare
Alphabet ==
    <<"a", "b", "c", "d", "e", "f", "g", "h", "i", "j", "k", "l", "m", "n", "o", "p",
      "q", "r", "s", "t", "u", "v", "w", "x", "y", "z", "0", "1", "2", "3", "4", "5",
      "6", "7", "8", "9">>
NameOf(n) == [i \in 1..n |-> Alphabet[((i - 1) % 36) + 1]]
PathKinds == {"abs", "rel", "bare"}
FilePathOf(kind, n) ==
    CASE kind = "abs" -> <<"/", "d", "/">> \o NameOf(n)
      [] kind = "rel" -> <<"d", "/">> \o NameOf(n)
      [] kind = "bare" -> NameOf(n)

\* What is at the path of the File: nothing, or one byte
ItemContents == { c \in Contents : Len(c) <= 1 }

\* Link(url, title)
NewLink(n, base, step) ==
    /\ made = NoItem
    /\ made' = Link(URLOf(n, base, step), "title")
    /\ given' = [url |-> URLOf(n, base, step)]
    /\ UNCHANGED <<transferVars, ondisk, payloads, reprs>>

\* File(filepath), for a file of some content at that path
NewFile(kind, n, content) ==
    /\ made = NoItem
    /\ made' = File(FilePathOf(kind, n), content)
    /\ given' = [kind |-> kind, n |-> n, size |-> Len(content)]
    /\ ondisk' = content
    /\ UNCHANGED <<transferVars, payloads, reprs>>

\* File.load_info(**kwargs), as add_items calls it for a registered file
LoadInfo ==
    /\ made.content_identifier = "file"
    /\ made.id = None
    /\ made' = load_info(made, LoadKwargs(ResponseEntry(1, 1, <<made>>), "t1"))
    /\ UNCHANGED <<transferVars, given, ondisk, payloads, reprs>>

\* The file at the path is written by some other program
Rewrite(content) ==
    /\ made.content_identifier = "file"
    /\ content # ondisk
    /\ ondisk' = content
    /\ UNCHANGED <<transferVars, made, given, payloads, reprs>>

\* item.serialize()
Serialize ==
    /\ made # NoItem
    /\ Len(payloads) < MaxOut
    /\ payloads' = Append(payloads, serialize(made))
    /\ UNCHANGED <<transferVars, made, given, ondisk, reprs>>

\* link._get_hex_repr(link.url)
GetHexRepr ==
    /\ made.content_identifier = "web_content"
    /\ Len(reprs) < MaxOut
    /\ reprs' = Append(reprs, _get_hex_repr(made.url))
    /\ UNCHANGED <<transferVars, made, given, ondisk, payloads>>

NextItems ==
    \/ \E n \in 0..MaxURLLen, base \in URLBases, step \in {0, 1} : NewLink(n, base, step)
    \/ \E kind \in PathKinds, n \in 1..MaxNameLen, content \in ItemContents :
           NewFile(kind, n, content)
    \/ LoadInfo
    \/ \E content \in ItemContents : Rewrite(content)
    \/ Serialize
    \/ GetHexRepr

SpecItems == InitItems /\ [][NextItems]_vars

(* ------------------------ reading the trace ---------------------------- *)
Of(seq, kind) == SelectSeq(seq, LAMBDA e : e.kind = kind)

\* One File.upload() call: from its "upload" entry to its "upload_ret" entry
\* (or to the end of the trace while the call is in progress)
UploadStarts == { s \in 1..Len(trace) : trace[s].kind = "upload" }
UploadRets(s) == { e \in (s + 1)..Len(trace) : trace[e].kind = "upload_ret" }
UploadDone(s) == UploadRets(s) # {}
UploadEnd(s) ==
    IF UploadDone(s)
    THEN CHOOSE e \in UploadRets(s) : \A x \in UploadRets(s) : e <= x
    ELSE Len(trace)
UploadSeg(s) == SubSeq(trace, s, UploadEnd(s))
UploadResult(s) == trace[UploadEnd(s)].ok

\* The bytes of the file that the upload() call starting at s reads
ContentOf(s) == disk[transfer_items[trace[s].item].local_identifier]

\* One File.upload_part() call: from "upload_part" to "upload_part_ret"
PartStarts == { s \in 1..Len(trace) : trace[s].kind = "upload_part" }
PartRets(s) == { e \in (s + 1)..Len(trace) : trace[e].kind = "upload_part_ret" }
PartDone(s) == PartRets(s) # {}
PartEnd(s) ==
    IF PartDone(s)
    THEN CHOOSE e \in PartRets(s) : \A x \in PartRets(s) : e <= x
    ELSE Len(trace)
PartSeg(s) == SubSeq(trace, s, PartEnd(s))
PartResult(s) == trace[PartEnd(s)].ok

Failed(seq, kind) == \E j \in 1..Len(seq) : seq[j].kind = kind /\ ~seq[j].ok
Succeeded(seq, kind) == \E j \in 1..Len(seq) : seq[j].kind = kind /\ seq[j].ok
Has(seq, kind) == \E j \in 1..Len(seq) : seq[j].kind = kind
Count(seq, kind) == Len(Of(seq, kind))

\* The bytes PUT successfully, in the order of the requests
RECURSIVE Concat(_)
Concat(seqs) == IF seqs = <<>> THEN <<>> ELSE Head(seqs) \o Concat(Tail(seqs))
BytesPut(seq) ==
    Concat([j \in 1..Len(SelectSeq(seq, LAMBDA e : e.kind = "PUT" /\ e.ok)) |->
              SelectSeq(seq, LAMBDA e : e.kind = "PUT" /\ e.ok)[j].data])

Ceil(n, c) == (n + c - 1) \div c

(* ------------------------------- claims -------------------------------- *)
\* C1: when every part upload of an upload() call succeeded, the call made
\* exactly ceil(n/c) upload_part calls, numbered 1..ceil(n/c) in that order,
\* the i-th carrying bytes (i-1)*c .. min(i*c, n)-1 of the n-byte file
\* (c = CHUNK_SIZE).
C1_PartsAreByteRanges ==
    \A s \in UploadStarts :
        Has(UploadSeg(s), "FINISH") =>
            LET parts == Of(UploadSeg(s), "upload_part")
                n == Len(ContentOf(s))
                c == CHUNK_SIZE
            IN  /\ Len(parts) = Ceil(n, c)
                /\ \A i \in 1..Len(parts) :
                      /\ parts[i].part = i
                      /\ parts[i].data = SubSeq(ContentOf(s), (i - 1) * c + 1, Min(i * c, n))

\* Every part upload of the call succeeded and together they carry the file
AllPartsUploaded(s) ==
    /\ ~Failed(UploadSeg(s), "upload_part_ret")
    /\ Count(UploadSeg(s), "upload_part") = Count(UploadSeg(s), "upload_part_ret")
    /\ BytesPut(UploadSeg(s)) = ContentOf(s)

PartRequests == {"upload_part", "GET", "PUT"}

\* C2: within one upload() call the finish request is issued only after every
\* part of the file has been uploaded successfully, no part request follows
\* it, and a call whose parts all succeeded issues it exactly once.
C2_FinishAfterAllParts ==
    \A s \in UploadStarts :
        LET seg == UploadSeg(s)
        IN  /\ Count(seg, "FINISH") <= 1
            /\ \A j \in 1..Len(seg) :
                  seg[j].kind = "FINISH" =>
                      /\ AllPartsUploaded(s)
                      /\ BytesPut(SubSeq(seg, 1, j - 1)) = ContentOf(s)
                      /\ \A m \in (j + 1)..Len(seg) :
                            seg[m].kind \notin PartRequests \cup {"FINISH"}
            /\ (UploadDone(s) /\ ~Failed(seg, "upload_part_ret"))
                  => Count(seg, "FINISH") = 1

\* witness: a finished upload of at least two parts
C2_Witness ==
    \E s \in UploadStarts :
        /\ UploadDone(s)
        /\ Has(UploadSeg(s), "FINISH")
        /\ Count(UploadSeg(s), "PUT") >= 2

\* C3: when upload_part returns False for part k, upload() returns False at
\* once: no request for a later part and no finish request is made.
C3_PartFailureAborts ==
    \A s \in UploadStarts :
        LET seg == UploadSeg(s)
        IN  \A j \in 1..Len(seg) :
              (seg[j].kind = "upload_part_ret" /\ ~seg[j].ok) =>
                  /\ UploadDone(s)
                  /\ ~UploadResult(s)
                  /\ Len(seg) = j + 1
                  /\ ~Has(seg, "FINISH")
                  /\ \A m \in 1..Len(seg) :
                        seg[m].kind \in PartRequests => seg[m].part <= seg[j].part

\* witness: a part failed while bytes of the file were still unread
C3_Witness ==
    \E s \in UploadStarts :
        /\ Failed(UploadSeg(s), "upload_part_ret")
        /\ Succeeded(UploadSeg(s), "upload_part_ret")
        /\ Len(BytesPut(UploadSeg(s))) + Len(piece) < Len(ContentOf(s))

\* C4: upload() returns True exactly when every part upload succeeded and
\* the finish response is a success; when only the finish fails it returns
\* False with every part uploaded and one error logged, for the failed close.
C4_UploadResult ==
    \A s \in UploadStarts :
        UploadDone(s) =>
            LET seg == UploadSeg(s)
            IN  /\ UploadResult(s) <=> (AllPartsUploaded(s) /\ Succeeded(seg, "FINISH"))
                /\ Failed(seg, "FINISH") =>
                      /\ ~UploadResult(s)
                      /\ AllPartsUploaded(s)
                      /\ Count(seg, "error") = 1
                      /\ Of(seg, "error")[1].msg = "Failed closing upload"

\* witness: every part was uploaded and the finish request failed
C4_Witness ==
    \E s \in UploadStarts :
        /\ UploadDone(s)
        /\ Failed(UploadSeg(s), "FINISH")
        /\ Count(UploadSeg(s), "PUT") >= 1

\* C5: upload() of a zero-byte file makes no part upload (no GET, no PUT) and
\* exactly one finish request, whose success is the result.
C5_EmptyFile ==
    \A s \in UploadStarts :
        ContentOf(s) = <<>> =>
            LET seg == UploadSeg(s)
            IN  /\ \A j \in 1..Len(seg) : seg[j].kind \notin PartRequests
                /\ UploadDone(s) =>
                      /\ Count(seg, "FINISH") = 1
                      /\ UploadResult(s) = Of(seg, "FINISH")[1].ok

\* witness: the upload of a zero-byte file has returned
C5_Witness ==
    \E s \in UploadStarts : ContentOf(s) = <<>> /\ UploadDone(s) /\ UploadResult(s)

\* C6: when the GET for the upload url fails, upload_part attempts no PUT,
\* returns False and logs exactly one error.
C6_GetFailure ==
    \A p \in PartStarts :
        LET seg == PartSeg(p)
        IN  Failed(seg, "GET") =>
              /\ PartDone(p)
              /\ ~PartResult(p)
              /\ Count(seg, "GET") = 1
              /\ ~Has(seg, "PUT")
              /\ Count(seg, "error") = 1
              /\ Of(seg, "error")[1].msg = "Failed fetching url"

\* witness: the GET of some part failed
C6_Witness ==
    \E p \in PartStarts : Failed(PartSeg(p), "GET") /\ trace[p].part >= 2

\* C7: upload_part returns True exactly when the GET and then the PUT
\* succeeded; a failed PUT after a successful GET gives False after exactly
\* one GET and one PUT.
C7_PartResult ==
    \A p \in PartStarts :
        PartDone(p) =>
            LET seg == PartSeg(p)
            IN  /\ PartResult(p) <=> (Succeeded(seg, "GET") /\ Succeeded(seg, "PUT"))
                /\ Failed(seg, "PUT") =>
                      /\ ~PartResult(p)
                      /\ Succeeded(seg, "GET")
                      /\ Count(seg, "GET") = 1
                      /\ Count(seg, "PUT") = 1

\* witness: the PUT of some part failed after its GET succeeded
C7_Witness ==
    \E p \in PartStarts : Failed(PartSeg(p), "PUT") /\ Succeeded(PartSeg(p), "GET")

(* ------------------------ claims about add_items ----------------------- *)
UploadKinds == {"upload_items", "upload", "upload_part", "GET", "PUT", "FINISH"}

\* The add_items call in progress, or the last call made if it was add_items
InAddItems == call.op = "add_items"
\* What add_items sent: the items held before the call, then the items passed
Sent == call.items_before \o call.items
\* The trace up to the return of validate_add_items_response
ValidateAt == CHOOSE j \in 1..Len(trace) : trace[j].kind = "validate_ret"
Validated == trace[ValidateAt].ok
ValidateLog == Of(SubSeq(trace, 1, ValidateAt), "error")

\* C8: when the add-items response fails validation, add_items returns False
\* without any upload (no upload_items call, no part or finish request),
\* transfer_files is what it was before the call, and the items passed are
\* appended to transfer_items.
C8_InvalidResponse ==
    (InAddItems /\ ~Validated) =>
        /\ pc = "idle"
        /\ returned = Returned("add_items", FALSE)
        /\ \A j \in 1..Len(trace) : trace[j].kind \notin UploadKinds
        /\ transfer_files = call.files_before
        /\ transfer_items = call.items_before \o call.items

\* witness: a call that passed items failed validation on a transfer that
\* already had files to upload
C8_Witness ==
    /\ InAddItems
    /\ ~Validated
    /\ call.items # <<>>
    /\ call.files_before # <<>>

\* C9: validate_add_items_response returns False exactly when the response
\* is not a success or its array has another length than transfer_items;
\* a failed response logs "Failed to add items", a wrong count logs "didn't
\* return same number of items" with both counts, a valid response no error.
C9_Validation ==
    InAddItems =>
        LET n == Len(Sent)
            k == Len(response.json)
        IN  /\ ~Validated <=> (~response.ok \/ k # n)
            /\ ~response.ok =>
                  ValidateLog = <<Error("Failed to add items", <<>>)>>
            /\ (response.ok /\ k # n) =>
                  ValidateLog = <<Error("didn't return same number of items", <<k, n>>)>>
            /\ (response.ok /\ k = n) => ValidateLog = <<>>

\* witness: a successful response with one entry too many
C9_Witness ==
    /\ InAddItems
    /\ response.ok
    /\ Len(Sent) >= 1
    /\ Len(response.json) = Len(Sent) + 1

\* Item i carries what entry i of the response says
LoadedFrom(i) ==
    /\ transfer_items[i].id = response.json[i].id
    /\ transfer_items[i].transfer_id = transfer_id
    /\ transfer_items[i].client_options = client_options
    /\ transfer_items[i].multipart_parts = response.json[i].multipart_parts
    /\ transfer_items[i].multipart_upload_id = response.json[i].multipart_upload_id

\* Entries a < b of transfer_files refer to items in that order
InItemOrder(files) ==
    \A a \in 1..Len(files), b \in 1..Len(files) : a < b => files[a] <= files[b]

\* The part of the positional correlation that is about the items
ItemsCorrelated ==
    \A i \in 1..Len(response.json) :
        IF IsFileEntry(response.json[i])
        THEN /\ LoadedFrom(i)
             /\ \E a \in 1..Len(transfer_files) : transfer_files[a] = i
        ELSE /\ transfer_items[i] = Sent[i]
             /\ \A a \in 1..Len(transfer_files) : transfer_files[a] # i

\* C10: after an add_items call whose response validated, every item at an
\* index whose response entry is not "web_content" carries the id,
\* transfer_id, client_options, multipart_parts and multipart_upload_id of
\* that entry and is in transfer_files, the files are in transfer_files in
\* the order they have in transfer_items, and the items at "web_content"
\* indices are unchanged and not in transfer_files.
C10_PositionalCorrelation ==
    (InAddItems /\ Validated) => (ItemsCorrelated /\ InItemOrder(transfer_files))

\* What does hold after every validated call: the items are correlated, and
\* the call appended its file entries in increasing index order
PerCallCorrelation ==
    (InAddItems /\ Validated) =>
        /\ ItemsCorrelated
        /\ transfer_files = call.files_before \o AppendedFiles(response.json)
        /\ InItemOrder(AppendedFiles(response.json))

(* ------------------- claims about the transfer's files ----------------- *)
\* The positions of transfer_items that hold a file
FilePositions ==
    SelectSeq(Indices(Len(transfer_items)),
              LAMBDA i : transfer_items[i].content_identifier # "web_content")

\* C11: after any add_items call, successful or failed, transfer_files holds
\* exactly the positions of transfer_items whose content type is not
\* "web_content", each once and in the same order.
C11_FilesMirrorItems ==
    InAddItems => transfer_files = FilePositions

\* Every file of transfer_files was uploaded and finished, in that order
AllFilesUploaded ==
    LET rets == Of(trace, "upload_ret")
        fins == Of(trace, "FINISH")
    IN  /\ Len(rets) = Len(transfer_files)
        /\ Len(fins) = Len(transfer_files)
        /\ \A k \in 1..Len(rets) :
              rets[k].ok /\ rets[k].item = transfer_files[k] /\ fins[k].ok

\* C12: when the add-items response validates, add_items calls upload_items
\* exactly once and returns what upload_items returns: True exactly when
\* every file of transfer_files was uploaded and finished.
C12_AddItemsResult ==
    (InAddItems /\ Validated) =>
        /\ Count(trace, "upload_items") = 1
        /\ Count(trace, "upload_items_ret") = (IF pc = "idle" THEN 1 ELSE 0)
        /\ pc = "idle" =>
              /\ returned.op = "add_items"
              /\ returned.raised = None
              /\ returned.value = Of(trace, "upload_items_ret")[1].ok
              /\ returned.value <=> AllFilesUploaded

\* witness: the items were registered and add_items returned False, a file
\* having failed to upload
C12_Witness ==
    /\ InAddItems
    /\ Validated
    /\ pc = "idle"
    /\ ~returned.value
    /\ Succeeded(trace, "upload_ret")

\* C13: upload_items uploads the files of transfer_files in order and stops
\* at the first upload() that returns False: it logs the failure and returns
\* False, no request follows for a later file, the uploads made before stay
\* as they are, and it returns True only when every upload() returned True.
C13_UploadItemsStops ==
    Has(trace, "upload_items") =>
        LET ups == Of(trace, "upload")
            rets == Of(trace, "upload_ret")
            done == Of(trace, "upload_items_ret")
        IN  /\ Len(ups) <= Len(transfer_files)
            /\ \A k \in 1..Len(ups) : ups[k].item = transfer_files[k]
            /\ \A k \in 1..Len(rets) : k < Len(rets) => rets[k].ok
            /\ \A j \in 1..Len(trace) :
                  (trace[j].kind = "upload_ret" /\ ~trace[j].ok) =>
                      /\ Len(trace) = j + 2
                      /\ trace[j + 1].kind = "error"
                      /\ trace[j + 1].msg = "Failed to upload item"
                      /\ trace[j + 2].kind = "upload_items_ret"
                      /\ ~trace[j + 2].ok
                      /\ pc = "idle"
                      /\ returned = Returned("add_items", FALSE)
                      /\ Count(trace, "FINISH") >= Len(rets) - 1
            /\ Len(done) <= 1
            /\ done # <<>> =>
                  (done[1].ok <=> (Len(rets) = Len(transfer_files)
                                   /\ \A k \in 1..Len(rets) : rets[k].ok))

\* witness: a file was uploaded, the next one failed, and a later file of
\* transfer_files was not attempted
C13_Witness ==
    /\ Has(trace, "upload_items")
    /\ Succeeded(trace, "upload_ret")
    /\ Failed(trace, "upload_ret")
    /\ Count(trace, "upload") < Len(transfer_files)

\* C14: add_files(paths) and add_links(urls) construct one item per value,
\* hand them to add_items, which registers them with the server, and return
\* the boolean add_items returns.
C14_Helpers ==
    call.op \in {"add_files", "add_links"} =>
        /\ returned.raised = None
        /\ Len(transfer_items) = Len(call.items_before) + Len(call.args)
        /\ Has(trace, "POST_ADD_ITEMS")

(* ------------------------- claims about the client --------------------- *)
\* C15: authorize() returns True exactly when the response is a success and
\* its body has a "token" field, and then the client's token is the string
\* form of that field: "abc" for "abc", "7" for 7.
C15_Authorize ==
    call.op = "authorize" =>
        LET res == trace[1]
            body == trace[1].data[1]
        IN  /\ res.kind = "POST_AUTHORIZE"
            /\ returned.op = "authorize"
            /\ returned.raised = None
            /\ returned.value <=> (res.ok /\ "token" \in body.fields)
            /\ (returned.value /\ body.token = JString("abc")) => token = "abc"
            /\ (returned.value /\ body.token = JNumber(7)) => token = "7"

\* witness: HTTP success with {"token": "abc"}
C15_Witness ==
    /\ call.op = "authorize"
    /\ returned.value
    /\ trace[1].data[1] = TokenBody(JString("abc"))
    /\ token = "abc"

\* C16: an authorize() that fails leaves the token unset when it was unset,
\* and leaves key and server as they were.
C16_FailedAuthorize ==
    (call.op = "authorize" /\ ~returned.value) =>
        /\ call.client_before.token = None => token = None
        /\ key = call.client_before.key
        /\ server = call.client_before.server

\* witness: an HTTP success without a token, on a client without a token
C16_Witness ==
    /\ call.op = "authorize"
    /\ ~returned.value
    /\ trace[1].ok
    /\ call.client_before.token = None

\* C17: create_transfer returns a Transfer bound to the name given (default
\* "WT Transfer") exactly when create() of that transfer returned True, and
\* None otherwise; key, token and server of the client are unchanged.
C17_CreateTransfer ==
    call.op = "create_transfer" =>
        /\ returned.op = "create_transfer"
        /\ returned.raised = None
        /\ returned.object = (IF Of(trace, "create_ret")[1].ok THEN "Transfer" ELSE None)
        /\ returned.object = "Transfer" =>
              /\ options.name = (IF call.args = <<>> THEN "WT Transfer" ELSE call.args[1])
              /\ transfer_id # None
              /\ transfer_items = <<>>
        /\ key = call.client_before.key
        /\ token = call.client_before.token
        /\ server = call.client_before.server

\* witness: an authorized client was returned a transfer of the name it gave
C17_Witness ==
    /\ call.op = "create_transfer"
    /\ returned.object = "Transfer"
    /\ call.args = <<"n1">>
    /\ token = "abc"

(* ------------------------ claims about the lifecycle ------------------- *)
\* C18: transfer_id is set exactly when a create() of the transfer has
\* succeeded; a successful create stores id and shortened_url of the response
\* and returns True, a failed one returns False and leaves both unset.
C18_TransferIdIffCreated ==
    /\ transfer_id # None <=> created
    /\ shortened_url # None <=> created
    /\ call.op = "create" =>
          LET res == trace[1]
              body == trace[1].data[1]
          IN  /\ returned = Returned("create", res.ok)
              /\ res.ok => (transfer_id = body.id /\ shortened_url = body.shortened_url)
              /\ (~res.ok /\ ~created) => (transfer_id = None /\ shortened_url = None)

\* witness: create() failed on a transfer that was never created
C18_Witness ==
    /\ call.op = "create"
    /\ ~returned.value
    /\ ~created
    /\ transfer_id = None

\* Every upload request is for a file that an add-items response registered
UploadsAfterRegistration ==
    \A j \in 1..Len(trace) :
        trace[j].kind \in {"GET", "PUT", "FINISH"} =>
            /\ transfer_items[trace[j].item].id # None
            /\ transfer_items[trace[j].item].multipart_upload_id # None

\* C19: an add-items request is issued only for a transfer whose create()
\* has succeeded, and an upload-url, part or finish request only for a file
\* that an add-items response has registered.
C19_Lifecycle ==
    /\ Has(trace, "POST_ADD_ITEMS") => (created /\ transfer_id # None)
    /\ UploadsAfterRegistration

RequestKinds ==
    {"POST_AUTHORIZE", "POST_CREATE", "POST_ADD_ITEMS", "GET", "PUT", "FINISH"}

\* The positions of the trace that hold a request, in order
Requests == SelectSeq(Indices(Len(trace)), LAMBDA j : trace[j].kind \in RequestKinds)

\* The number of requests of one kind made for one part of one item
CountFor(kind, item, part) ==
    Len(SelectSeq(trace, LAMBDA e : e.kind = kind /\ e.item = item /\ e.part = part))

\* A failing response ends the call: nothing is requested after it and the
\* call returns False (None for create_transfer)
FailureEndsCall ==
    \A j \in 1..Len(trace) :
        (trace[j].kind \in RequestKinds /\ ~trace[j].ok) =>
            /\ pc = "idle"
            /\ ~returned.value
            /\ \A m \in (j + 1)..Len(trace) : trace[m].kind \notin RequestKinds

\* C21: within one call every request is issued at most once: one authorize,
\* create or add-items POST, per file and part number at most one GET and
\* one PUT, per file at most one finish request; and the first failing
\* response ends the call with a false result.
C21_NoRetries ==
    /\ \A kind \in {"POST_AUTHORIZE", "POST_CREATE", "POST_ADD_ITEMS"} :
          Count(trace, kind) <= 1
    /\ \A j \in 1..Len(trace) :
          trace[j].kind \in {"GET", "PUT", "FINISH"} =>
              CountFor(trace[j].kind, trace[j].item, trace[j].part) = 1
    /\ FailureEndsCall

\* What does hold: within one upload() call no request is repeated
NoRetriesPerUpload ==
    /\ \A s \in UploadStarts :
          \A part \in 0..Len(UploadSeg(s)), kind \in {"GET", "PUT", "FINISH"} :
              Len(SelectSeq(UploadSeg(s), LAMBDA e : e.kind = kind /\ e.part = part)) <= 1
    /\ FailureEndsCall

\* C22: one failing HTTP response during add_items gives exactly one
\* error-level log entry over the whole call.
C22_LoggedOnce ==
    (InAddItems /\ pc = "idle") =>
        \A j \in 1..Len(trace) :
            (trace[j].kind \in RequestKinds /\ ~trace[j].ok) =>
                Count(trace, "error") = 1

\* The upload() call that the request at position j belongs to
UploadOf(j) == { s \in UploadStarts : s < j /\ j <= UploadEnd(s) }

\* The requests of the upload() call starting at s, in order
RequestsOf(s) ==
    SelectSeq(UploadSeg(s), LAMBDA e : e.kind \in {"GET", "PUT", "FINISH"})

\* C23: the uploads are strictly sequential: an upload() starts only when
\* the one before has returned, every part or finish request belongs to
\* exactly one upload() and is for its file; within a file the parts go
\* 1, 2, 3, ... and each part's GET is answered before its PUT is sent and
\* its PUT before the GET of the next part; the finish request comes last.
C23_Sequential ==
    /\ \A s \in UploadStarts, t \in UploadStarts :
          s < t => (UploadDone(s) /\ UploadEnd(s) < t)
    /\ \A j \in 1..Len(trace) :
          trace[j].kind \in {"GET", "PUT", "FINISH"} =>
              /\ Cardinality(UploadOf(j)) = 1
              /\ \A s \in UploadOf(j) : trace[j].item = trace[s].item
    /\ \A s \in UploadStarts :
          LET reqs == RequestsOf(s)
          IN  \A k \in 1..Len(reqs) :
                /\ reqs[k].kind = "GET" =>
                      /\ reqs[k].part = (k + 1) \div 2
                      /\ k % 2 = 1
                      /\ (k < Len(reqs) /\ reqs[k].ok) =>
                            (reqs[k + 1].kind = "PUT" /\ reqs[k + 1].part = reqs[k].part)
                /\ reqs[k].kind = "PUT" =>
                      /\ k > 1
                      /\ reqs[k - 1].kind = "GET"
                      /\ reqs[k - 1].ok
                      /\ reqs[k - 1].part = reqs[k].part
                /\ reqs[k].kind = "FINISH" => k = Len(reqs)
                /\ (k < Len(reqs)) => reqs[k].ok

\* witness: a file of two parts was uploaded and the upload of the next
\* file has made its requests
C23_Witness ==
    \E s \in UploadStarts, t \in UploadStarts :
        /\ s < t
        /\ Count(UploadSeg(s), "PUT") >= 2
        /\ Has(UploadSeg(s), "FINISH")
        /\ Has(UploadSeg(t), "FINISH")

(* ------------------------ claims about the requests -------------------- *)
JSONRequestKinds == {"POST_AUTHORIZE", "POST_CREATE", "POST_ADD_ITEMS", "GET", "FINISH"}

\* The values a request entry carries for one header
HeaderValues(e, name) == { h[2] : h \in { x \in e.headers : x[1] = name } }

\* The token held for the request of trace entry j: authorize() passes none;
\* create_transfer() hands the client's token to the transfer it constructs;
\* the requests of a transfer carry the token the transfer was constructed with
TokenFor(j) ==
    IF trace[j].kind = "POST_AUTHORIZE" THEN None
    ELSE IF call.op = "create_transfer" THEN call.client_before.token
    ELSE options.token

\* A token is present: one is set, and it is not the empty string
TokenPresent(t) == t # None /\ t # ""

\* C24: every JSON API request carries Content-Type application/json, the
\* configured key as x-api-key and a User-Agent, and carries "Authorization:
\* Bearer <token>" exactly when a token is present for that request.
C24_Headers ==
    \A j \in 1..Len(trace) :
        trace[j].kind \in JSONRequestKinds =>
            /\ HeaderValues(trace[j], "Content-Type") = {"application/json"}
            /\ HeaderValues(trace[j], "x-api-key") = {key}
            /\ Cardinality(HeaderValues(trace[j], "User-Agent")) = 1
            /\ HeaderValues(trace[j], "Authorization") =
                   IF TokenPresent(TokenFor(j))
                   THEN {"Bearer " \o TokenFor(j)}
                   ELSE {}

\* witness: an authorized client made a transfer, and the requests of its
\* add_items, up to the one that closes the upload, carry the bearer token
C24_Witness ==
    /\ call.op = "add_items"
    /\ token = "abc"
    /\ <<"Authorization", "Bearer abc">> \in trace[1].headers
    /\ \E j \in 1..Len(trace) :
           /\ trace[j].kind = "FINISH"
           /\ <<"Authorization", "Bearer abc">> \in trace[j].headers
           /\ <<"x-api-key", "key">> \in trace[j].headers

\* The last entry of a kind before position j
LastBefore(j, kind) ==
    CHOOSE m \in 1..(j - 1) :
        /\ trace[m].kind = kind
        /\ \A x \in (m + 1)..(j - 1) : trace[x].kind # kind

\* C25: the PUT of a part goes to the pre-signed url of the response that was
\* fetched for it, with the chunk that upload_part was handed as its body and
\* without any header: no API key and no bearer token is sent there.
C25_PutIsBare ==
    \A j \in 1..Len(trace) :
        trace[j].kind = "PUT" =>
            /\ trace[j].headers = {}
            /\ trace[j].body = trace[LastBefore(j, "upload_part")].data
            /\ trace[j].body # <<>>
            /\ trace[LastBefore(j, "GET")].ok
            /\ trace[j].url = trace[LastBefore(j, "GET")].data[1]
            /\ trace[j].kwargs.key = None
            /\ trace[j].kwargs.token = None

\* witness: a part was PUT by a transfer that holds a token
C25_Witness ==
    \E j \in 1..Len(trace) :
        /\ trace[j].kind = "PUT"
        /\ trace[j].ok
        /\ options.token = "abc"
        /\ <<"Authorization", "Bearer abc">> \in trace[LastBefore(j, "GET")].headers

\* The host a request goes to: the server the client was constructed with,
\* the default host when it was constructed without one
HostOf(srv) == IF srv = None THEN "dev.wetransfer.com" ELSE srv

\* The path of the request of trace entry j: the template of its operation
\* filled with the transfer id, or with the ids of the file and the part
PathOf(j) ==
    LET e == trace[j]
    IN  CASE e.kind = "POST_AUTHORIZE" -> "/v1/authorize"
          [] e.kind = "POST_CREATE" -> "/v1/transfers"
          [] e.kind = "POST_ADD_ITEMS" -> "/v1/transfers/" \o transfer_id \o "/items"
          [] e.kind = "GET" ->
                "/v1/files/" \o transfer_items[e.item].id \o "/uploads/"
                \o ToString(e.part) \o "/" \o transfer_items[e.item].multipart_upload_id
          [] e.kind = "FINISH" ->
                "/v1/files/" \o transfer_items[e.item].id \o "/uploads/complete"

\* C30: a request built without a server goes to dev.wetransfer.com, and the
\* url of every request is "https://", the server and the path of its
\* operation filled with its ids.
C30_URL ==
    \A j \in 1..Len(trace) :
        trace[j].kind \in JSONRequestKinds =>
            trace[j].url = "https://" \o HostOf(server) \o PathOf(j)

\* witness: a client without a server fetched the url of a part
C30_Witness ==
    /\ server = None
    /\ \E j \in 1..Len(trace) :
           /\ trace[j].kind = "GET"
           /\ trace[j].url = "https://dev.wetransfer.com/v1/files/id3_1/uploads/1/mup3_1"

\* The add-items request of the add_items call: the first entry of its trace
Posted == trace[1]

\* C26: an add_items call POSTs serialize() of every item given to the earlier
\* add_items calls on the transfer, then of the items of this call, in order,
\* to the add-items endpoint of the transfer id.
C26_PostsAccumulated ==
    InAddItems =>
        /\ Posted.kind = "POST_ADD_ITEMS"
        /\ Posted.url = "https://" \o HostOf(server) \o "/v1/transfers/"
                         \o transfer_id \o "/items"
        /\ Posted.body = [i \in 1..Len(call.passed_before \o call.items) |->
                             serialize((call.passed_before \o call.items)[i])]

\* What holds instead: the request carries serialize() of every item the
\* transfer holds, whichever call appended it
PostsHeldList ==
    InAddItems =>
        /\ Posted.kind = "POST_ADD_ITEMS"
        /\ Posted.url = "https://" \o HostOf(server) \o "/v1/transfers/"
                         \o transfer_id \o "/items"
        /\ Len(Posted.body) = Len(transfer_items)
        /\ \A i \in 1..Len(transfer_items) : Posted.body[i] = serialize(transfer_items[i])
        /\ Len(call.passed_before) <= Len(call.items_before)
        /\ \A i \in 1..Len(call.passed_before) :
               serialize(call.passed_before[i]) = Posted.body[i]
        /\ \A i \in 1..Len(call.items) :
               serialize(call.items[i]) = Posted.body[Len(call.items_before) + i]

(* ------------------------- claims about the items ---------------------- *)
IsLink == made.content_identifier = "web_content"
IsFile == made.content_identifier = "file"

\* The bytes of the url of the Link: its code units under python 2; under
\* python 3 a code unit below 0x80 is one byte, and one from 0xc0 to 0xff is
\* the two bytes 0xc3 and the unit less 0x40
BytesOfURL ==
    IF PY2 \/ given.url = <<>> \/ given.url[1] < 128
    THEN given.url
    ELSE [k \in 1..(2 * Len(given.url)) |->
            IF k % 2 = 1 THEN 195 ELSE given.url[k \div 2] - 64]

\* C27: the local identifier of a Link is the last 34 characters of the
\* lowercase hexadecimal encoding of the bytes of its url, and all of that
\* encoding when it is shorter: 34 characters for 37 and for 17 bytes, 32 for
\* 16 bytes, 6 for 3 bytes.
C27_LinkIdentifier ==
    IsLink =>
        LET id == made.local_identifier
            B == BytesOfURL
        IN  /\ Len(id) = Min(34, 2 * Len(B))
            /\ \A k \in 1..Len(id) :
                   LET pos == 2 * Len(B) - Len(id) + k
                       byte == B[(pos + 1) \div 2]
                   IN  id[k] = HexDigits[(IF pos % 2 = 1 THEN byte \div 16
                                                          ELSE byte % 16) + 1]
            /\ Len(B) = 37 => Len(id) = 34
            /\ Len(B) = 17 => Len(id) = 34
            /\ Len(B) = 16 => Len(id) = 32
            /\ Len(B) = 3 => Len(id) = 6
            /\ given.url = [i \in 1..37 |-> 120] =>
                   id = [k \in 1..34 |-> IF k % 2 = 1 THEN "7" ELSE "8"]
            /\ given.url = <<120, 120, 120>> => id = <<"7", "8", "7", "8", "7", "8">>

\* witness: the Link of a url of 37 "x"
C27_Witness ==
    /\ IsLink
    /\ given.url = [i \in 1..37 |-> 120]
    /\ made.local_identifier = [k \in 1..34 |-> IF k % 2 = 1 THEN "7" ELSE "8"]

\* Hex-decoding: the value of a digit, and the bytes of a string of digits
HexValue(ch) == CHOOSE v \in 0..15 : HexDigits[v + 1] = ch
HexDecode(h) == [k \in 1..(Len(h) \div 2) |-> 16 * HexValue(h[2 * k - 1]) + HexValue(h[2 * k])]

\* C28: the local identifier of a Link has at most 34 characters, every
\* computation of it for the url gives that same string, and hex-decoding it
\* gives the last min(17, byte length) bytes of the url.
C28_LinkRoundTrip ==
    IsLink =>
        LET id == made.local_identifier
            B == BytesOfURL
            m == Min(17, Len(B))
        IN  /\ Len(id) <= 34
            /\ Len(id) % 2 = 0
            /\ \A k \in 1..Len(reprs) : reprs[k] = id
            /\ \A k \in 1..Len(payloads) : payloads[k].local_identifier = id
            /\ Len(HexDecode(id)) = m
            /\ \A k \in 1..m : HexDecode(id)[k] = B[Len(B) - m + k]

\* witness: the identifier of a url of more than 17 bytes, some of them of a
\* two-byte character, some below 0x10, was computed twice more
C28_Witness ==
    /\ IsLink
    /\ Len(reprs) = 2
    /\ Len(BytesOfURL) > 17
    /\ \E k \in 1..Len(BytesOfURL) : BytesOfURL[k] = 195
    /\ HexDecode(made.local_identifier)[1] # HexDecode(made.local_identifier)[2]

\* The absolute path of the File, from what its constructor was given
AbsoluteOf(kind, n) ==
    CASE kind = "abs" -> <<"/", "d", "/">> \o NameOf(n)
      [] kind = "rel" -> <<"/", "w", "/", "d", "/">> \o NameOf(n)
      [] kind = "bare" -> <<"/", "w", "/">> \o NameOf(n)

\* C29: File.serialize() returns filename, filesize, content_identifier "file"
\* and local_identifier: the last 34 characters of the absolute path (all of
\* it when it is shorter) and the size at construction; every call returns
\* that payload, before and after load_info and a change of the file on disk.
C29_FileSerialize ==
    IsFile =>
        \A k \in 1..Len(payloads) :
            LET p == payloads[k]
                A == AbsoluteOf(given.kind, given.n)
            IN  /\ DOMAIN p = {"filename", "filesize", "content_identifier",
                               "local_identifier"}
                /\ p.filename = NameOf(given.n)
                /\ p.filesize = given.size
                /\ p.content_identifier = "file"
                /\ Len(p.local_identifier) = Min(34, Len(A))
                /\ \A i \in 1..Len(p.local_identifier) :
                       p.local_identifier[i] = A[Len(A) - Len(p.local_identifier) + i]

\* witness: a File of a path longer than 34 characters was registered, the
\* file on disk got another size, and serialize() has returned twice
C29_Witness ==
    /\ IsFile
    /\ made.id # None
    /\ Len(ondisk) # given.size
    /\ Len(AbsoluteOf(given.kind, given.n)) > 34
    /\ Len(payloads) = 2
    /\ payloads[1] = payloads[2]
    /\ payloads[1].local_identifier[1] # "/"

(* ------------------- claims about the whole transfer ------------------- *)
\* The upload_part() call that position j of the trace lies in
PartOf(j) == { s \in PartStarts : s < j /\ j <= PartEnd(s) }

\* The successful GETs of the upload_part() call starting at s, before j
GetsBefore(s, j) ==
    { g \in (s + 1)..(j - 1) : trace[g].kind = "GET" /\ trace[g].ok }

\* C31: a chunk is PUT to the upload_url of the GET of the same upload_part
\* call; that GET is keyed by the id of the file, the part number of the
\* chunk and the multipart_upload_id of the file; no PUT goes to a url that
\* was fetched for another part or another file.
C31_PutTarget ==
    \A j \in 1..Len(trace) :
        trace[j].kind = "PUT" =>
            /\ Cardinality(PartOf(j)) = 1
            /\ \A s \in PartOf(j) :
                  /\ trace[j].item = trace[s].item
                  /\ trace[j].part = trace[s].part
                  /\ Cardinality(GetsBefore(s, j)) = 1
                  /\ \A g \in GetsBefore(s, j) :
                        /\ trace[g].item = trace[s].item
                        /\ trace[g].part = trace[s].part
                        /\ trace[g].url =
                              "https://" \o HostOf(server) \o "/v1/files/"
                              \o transfer_items[trace[s].item].id \o "/uploads/"
                              \o ToString(trace[s].part) \o "/"
                              \o transfer_items[trace[s].item].multipart_upload_id
                        /\ trace[j].url = trace[g].data[1]
            /\ \A g \in 1..Len(trace) :
                  (/\ trace[g].kind = "GET"
                   /\ <<trace[g].item, trace[g].part>> # <<trace[j].item, trace[j].part>>)
                      => trace[g].data[1] # trace[j].url

\* witness: second parts were PUT for two files
C31_Witness ==
    \E j \in 1..Len(trace), k \in 1..Len(trace) :
        /\ trace[j].kind = "PUT" /\ trace[k].kind = "PUT"
        /\ trace[j].part = 2 /\ trace[k].part = 2
        /\ trace[j].item # trace[k].item
        /\ trace[j].url # trace[k].url

\* C32: a file whose finish-upload request has succeeded in an earlier call
\* gets no part or finish request in a later add_items call.
C32_UploadedOnce ==
    InAddItems =>
        \A j \in 1..Len(trace) :
            trace[j].kind \in {"GET", "PUT", "FINISH"} =>
                trace[j].item \notin call.finished_before

\* The positions of the File items the transfer holds
HeldFiles ==
    { i \in 1..Len(transfer_items) : transfer_items[i].content_identifier = "file" }

\* An upload() of the call sent every byte of item i in parts that all
\* succeeded, and its finish-upload request succeeded
CompletelyUploaded(i) ==
    \E s \in UploadStarts :
        /\ trace[s].item = i
        /\ UploadDone(s)
        /\ UploadResult(s)
        /\ ~Failed(UploadSeg(s), "GET")
        /\ ~Failed(UploadSeg(s), "PUT")
        /\ BytesPut(UploadSeg(s)) = disk[transfer_items[i].local_identifier]
        /\ Succeeded(UploadSeg(s), "FINISH")

SameItem(a, b) ==
    /\ a.content_identifier = b.content_identifier
    /\ a.local_identifier = b.local_identifier

\* C34: no call on a transfer removes or reorders an item: the item list the
\* call started from is a prefix of the list it leaves, whether it returns
\* True, False or raises.
C34_ItemsOnlyGrow ==
    call.op \in {"add_items", "add_files", "add_links", "create", "authorize"} =>
        /\ Len(call.items_before) <= Len(transfer_items)
        /\ \A i \in 1..Len(call.items_before) :
               SameItem(transfer_items[i], call.items_before[i])
        /\ InAddItems =>
              /\ Len(transfer_items) = Len(call.items_before) + Len(call.items)
              /\ \A i \in 1..Len(call.items) :
                     SameItem(transfer_items[Len(call.items_before) + i], call.items[i])

\* witness: an add_items call that failed on a transfer that held a link left
\* the link and the file it was given
C34_Witness ==
    /\ InAddItems
    /\ pc = "idle"
    /\ ~returned.value
    /\ Len(call.items_before) = 1
    /\ call.items_before[1].content_identifier = "web_content"
    /\ Len(transfer_items) = 2
    /\ transfer_items[2].content_identifier = "file"

\* The text of a "token" value of a response
TokenText(v) ==
    CASE v = JString("abc") -> "abc"
      [] v = JString("") -> ""
      [] v = JNumber(7) -> "7"

\* C35: the client's token is what the latest authorize() that returned True
\* stored, however many failing authorize() calls came after it: a failing
\* call leaves the token it found, a call that returns True replaces it.
C35_FailedAuthorizeKeepsToken ==
    /\ (GrantedSoFar = NoGrant) => token = None
    /\ (GrantedSoFar # NoGrant) => token = TokenText(GrantedSoFar)
    /\ (call.op = "authorize" /\ ~returned.value) => token = call.client_before.token
    /\ (call.op = "authorize" /\ returned.value) => token = TokenText(trace[1].data[1].token)

\* witness: after a token was stored, an authorize() failed and left it there
C35_Witness ==
    /\ call.op = "authorize"
    /\ ~returned.value
    /\ call.granted_before = JString("abc")
    /\ call.client_before.token = "abc"
    /\ token = "abc"

\* C36: a create() that fails leaves transfer_id, shortened_url,
\* transfer_items and transfer_files as they were before the call, also on a
\* transfer that an earlier create() had created.
C36_FailedCreateFrame ==
    (call.op = "create" /\ ~returned.value) =>
        /\ returned.op = "create"
        /\ transfer_id = call.transfer_before.transfer_id
        /\ shortened_url = call.transfer_before.shortened_url
        /\ transfer_items = call.items_before
        /\ transfer_files = call.files_before

\* witness: create() failed on a created transfer that holds an uploaded file
C36_Witness ==
    /\ call.op = "create"
    /\ ~returned.value
    /\ call.transfer_before.transfer_id = "t1"
    /\ transfer_id = "t1"
    /\ shortened_url = "https://we.tl/t1"
    /\ Len(transfer_items) = 1
    /\ transfer_files = <<1>>

\* The token the client held when create_transfer was called for the
\* transfer the requests of this call are made for
TokenAtCreation ==
    IF call.op = "create_transfer" THEN call.client_before.token ELSE call.made_with

\* C37: the create-transfer, add-items, get-upload-URL and finish-upload
\* requests of a transfer carry the token the client held when create_transfer
\* was called, and no Authorization header when it held none then, whatever
\* authorize() has stored in the client since.
C37_TokenPropagation ==
    \A j \in 1..Len(trace) :
        trace[j].kind \in {"POST_CREATE", "POST_ADD_ITEMS", "GET", "FINISH"} =>
            /\ trace[j].kwargs.token = TokenAtCreation
            /\ HeaderValues(trace[j], "Authorization") =
                   IF TokenPresent(TokenAtCreation)
                   THEN {"Bearer " \o TokenAtCreation}
                   ELSE {}

\* witness: a transfer made by a client without a token sends its finish
\* request without Authorization header after the client has stored "abc"
C37_Witness ==
    /\ InAddItems
    /\ token = "abc"
    /\ call.made_with = None
    /\ \E j \in 1..Len(trace) :
           /\ trace[j].kind = "FINISH"
           /\ HeaderValues(trace[j], "Authorization") = {}

\* The number of chunks of a file of n bytes read c bytes at a time
Chunks(n, c) == (n + c - 1) \div c

\* Every upload() has made at most ceil(n/c) part uploads and one finish request
PartsWithinBound ==
    \A s \in UploadStarts :
        /\ Count(UploadSeg(s), "upload_part") <= Chunks(Len(ContentOf(s)), CHUNK_SIZE)
        /\ Count(UploadSeg(s), "GET") <= Chunks(Len(ContentOf(s)), CHUNK_SIZE)
        /\ Count(UploadSeg(s), "PUT") <= Chunks(Len(ContentOf(s)), CHUNK_SIZE)
        /\ Count(UploadSeg(s), "FINISH") <= 1

\* add_items has returned True or False and so has every upload() it started
AddItemsOver ==
    /\ pc = "idle"
    /\ returned.op = "add_items"
    /\ returned.raised = None
    /\ \A s \in UploadStarts : UploadDone(s)

====
